---- MODULE Spec2Model ----
(***************************************************************************)
(* A model of python-rsa-from-scratch: the arithmetic of crypto_math.py,   *)
(* the block codec and prime-pair search of rsa/utils.py and the key       *)
(* generation, encryption and decryption of rsa/rsa_core.py.               *)
(*                                                                         *)
(* Python integers are unbounded; the values of every run below stay       *)
(* under 2^31, and a product that could pass it is reduced by MulMod.      *)
(***************************************************************************)
EXTENDS Integers, Sequences, FiniteSets, TLC

VARIABLES
    \* the frame of one call of a pure function (modexpo, karatsuba_multiply,
    \* modinv, bytes_to_int, int_to_bytes)
    fn, args, result,
    \* lcg_prng: the generator object held by generate_prime_pair
    seed, gbits, current_seed, yielded,
    \* is_prime: n, k, d, the number of rounds run, the trials so far, the return
    ip_pc, ip_n, ip_k, ip_d, ip_round, ip_trials, ip_ret,
    \* generate_keys and generate_prime_pair
    kg_pc, bits, p, q, n, phi, e, d,
    \* encrypt and decrypt
    c_pc, message, message_bytes, c_i, encrypted_blocks, decrypted_bytes, plaintext

fnVars == <<fn, args, result>>
genVars == <<seed, gbits, current_seed, yielded>>
ipVars == <<ip_pc, ip_n, ip_k, ip_d, ip_round, ip_trials, ip_ret>>
kgVars == <<kg_pc, bits, p, q, n, phi, e, d>>
cVars == <<c_pc, message, message_bytes, c_i, encrypted_blocks, decrypted_bytes, plaintext>>
vars == <<fnVars, genVars, ipVars, kgVars, cVars>>

---------------------------------------------------------------------------
(* Bounds of the model *)

MaxBase == 10
MaxExponent == 7
MaxModulus == 12
MaxLong == 1100
MaxShort == 110
MaxInvArg == 40
MaxCodecLen == 2
MaxCodecInt == 66000
MaxDraws == 4
MaxLcgBits == 12
MaxLcgSeed == 40
MaxTested == 70
MaxRounds == 2
MaxKeyBits == 12
MaxTime == 8
MaxMessageLen == 2

---------------------------------------------------------------------------
(* Python built-ins the code uses *)

\* int.bit_length()
RECURSIVE bit_length(_)
bit_length(v) == IF v = 0 THEN 0 ELSE 1 + bit_length(v \div 2)

\* len(str(v)) for v >= 0
RECURSIVE DecLen(_)
DecLen(v) == IF v < 10 THEN 1 ELSE 1 + DecLen(v \div 10)

\* (a * b) % m on unbounded integers, for 0 <= a, b and 0 < m < 2^26: the product
\* is built from b's base-16 digits, so that no intermediate value passes 2^31
RECURSIVE MulMod(_, _, _)
MulMod(a, b, m) ==
    IF a < 46341 /\ b < 46341 THEN (a * b) % m
    ELSE IF b < 16 THEN ((a % m) * b) % m
    ELSE (16 * MulMod(a % m, b \div 16, m) + (b % 16) * (a % m)) % m

---------------------------------------------------------------------------
(* crypto_math.py *)

\* one turn of modexpo's while loop on <<result, x, y>>; with y = 0 (the loop
\* is over) it leaves result as it is
modexpo_turn(st, m) ==
    IF st[3] > 0
    THEN <<IF st[3] % 2 = 1 THEN MulMod(st[1], st[2], m) ELSE st[1],
           MulMod(st[2], st[2], m),
           st[3] \div 2>>
    ELSE st

\* the while loop, four turns to an unfolding
RECURSIVE modexpo_loop(_, _)
modexpo_loop(st, m) ==
    IF st[3] > 0
    THEN modexpo_loop(modexpo_turn(modexpo_turn(modexpo_turn(modexpo_turn(st, m), m), m), m), m)
    ELSE st[1]

\* the lowest bit of the exponent is shifted out before it is tested
modexpo_skip_multiply(x, y, m) == modexpo_loop(<<1, x % m, y \div 2>>, m)

modexpo(x, y, m) == modexpo_loop(<<1, x % m, y>>, m)

\* the middle term built from a*d + b*c computed without the half-sums' carry
RECURSIVE karatsuba_drop_carry(_, _)
karatsuba_drop_carry(x, y) ==
    IF x < 10 \/ y < 10 THEN x * y
    ELSE LET s == IF DecLen(x) > DecLen(y) THEN DecLen(x) ELSE DecLen(y)
             m == s \div 2
             a == x \div (10 ^ m)
             b == x % (10 ^ m)
             c == y \div (10 ^ m)
             dd == y % (10 ^ m)
             z0 == karatsuba_drop_carry(b, dd)
             z1 == karatsuba_drop_carry((a + b) % (10 ^ (s - m)), (c + dd) % (10 ^ (s - m)))
             z2 == karatsuba_drop_carry(a, c)
         IN (z2 * 10 ^ (2 * m)) + ((z1 - z2 - z0) * 10 ^ m) + z0

RECURSIVE karatsuba_multiply(_, _)
karatsuba_multiply(x, y) ==
    IF x < 10 \/ y < 10 THEN x * y
    ELSE LET s == IF DecLen(x) > DecLen(y) THEN DecLen(x) ELSE DecLen(y)
             m == s \div 2
             a == x \div (10 ^ m)
             b == x % (10 ^ m)
             c == y \div (10 ^ m)
             dd == y % (10 ^ m)
             z0 == karatsuba_multiply(b, dd)
             z1 == karatsuba_multiply(a + b, c + dd)
             z2 == karatsuba_multiply(a, c)
         IN (z2 * 10 ^ (2 * m)) + ((z1 - z2 - z0) * 10 ^ m) + z0

\* egcd returns the tuple (gcd, x, y)
RECURSIVE egcd(_, _)
egcd(a, b) ==
    IF a = 0 THEN <<b, 0, 1>>
    ELSE LET r == egcd(b % a, a)
         IN <<r[1], r[3] - (b \div a) * r[2], r[2]>>

\* modinv either raises ValueError or returns x % phi
modinv_no_normalise(ee, ph) ==
    LET r == egcd(ee, ph)
    IN IF r[1] # 1 THEN [kind |-> "raise", value |-> 0]
       ELSE [kind |-> "return", value |-> r[2]]

modinv(ee, ph) ==
    LET r == egcd(ee, ph)
    IN IF r[1] # 1 THEN [kind |-> "raise", value |-> 0]
       ELSE [kind |-> "return", value |-> r[2] % ph]

gcd(ee, ph) == egcd(ee, ph)[1]

---------------------------------------------------------------------------
(* rsa/utils.py: the block codec *)

\* bytes_to_int: byte i of the block weighs 256 ** i
RECURSIVE bytes_to_int_from(_, _)
bytes_to_int_from(byte_block, i) ==
    IF i > Len(byte_block) THEN 0
    ELSE byte_block[i] * (256 ^ (i - 1)) + bytes_to_int_from(byte_block, i + 1)

bytes_to_int(byte_block) == bytes_to_int_from(byte_block, 1)

RECURSIVE int_to_bytes_loop(_, _)
int_to_bytes_loop(temp_int, byte_list) ==
    IF temp_int > 0
    THEN int_to_bytes_loop(temp_int \div 256, Append(byte_list, temp_int % 256))
    ELSE byte_list

\* the most significant byte first
RECURSIVE int_to_bytes_big_endian(_)
int_to_bytes_big_endian(integer) ==
    IF integer = 0 THEN <<0>>
    ELSE IF integer < 256 THEN <<integer>>
    ELSE int_to_bytes_big_endian(integer \div 256) \o <<integer % 256>>

int_to_bytes(integer) ==
    IF integer = 0 THEN <<0>> ELSE int_to_bytes_loop(integer, <<>>)

---------------------------------------------------------------------------
(* crypto_math.py: lcg_prng and is_prime *)

\* one turn of lcg_prng's loop: the value it stores and yields
lcg_next_odd_multiplier(cur, nbits) == ((2 ^ (nbits \div 2) + 1) * cur + 1) % (2 ^ nbits)

lcg_next(cur, nbits) ==
    LET m == 2 ^ nbits
        a == 2 ^ (nbits \div 2)
        c == 1
    IN (a * cur + c) % m

\* secrets.randbelow(n - 3) + 2
Witnesses(nn) == {r + 2 : r \in 0..(nn - 4)}

\* the squaring loop of _miller_rabin_test, on its own copy of d
RECURSIVE miller_rabin_loop(_, _, _)
miller_rabin_loop(x, dd, nn) ==
    IF dd # nn - 1
    THEN LET x2 == MulMod(x, x, nn)
         IN IF x2 = 1 THEN FALSE
            ELSE IF x2 = nn - 1 THEN TRUE
            ELSE miller_rabin_loop(x2, dd * 2, nn)
    ELSE FALSE

\* a trial that takes x = 1 inside the squaring loop for a pass
RECURSIVE miller_rabin_loop_accepts_one(_, _, _)
miller_rabin_loop_accepts_one(x, dd, nn) ==
    IF dd # nn - 1
    THEN LET x2 == MulMod(x, x, nn)
         IN IF x2 = 1 \/ x2 = nn - 1 THEN TRUE
            ELSE miller_rabin_loop_accepts_one(x2, dd * 2, nn)
    ELSE FALSE

miller_rabin_accepts_one(dd, nn, a) ==
    LET x == modexpo(a, dd, nn)
    IN IF x = 1 \/ x = nn - 1 THEN TRUE ELSE miller_rabin_loop_accepts_one(x, dd, nn)

\* a trial that only looks at a^d
miller_rabin_no_squaring(dd, nn, a) ==
    LET x == modexpo(a, dd, nn)
    IN x = 1 \/ x = nn - 1

\* _miller_rabin_test(d, n) with the witness a it drew
miller_rabin_test(dd, nn, a) ==
    LET x == modexpo(a, dd, nn)
    IN IF x = 1 \/ x = nn - 1 THEN TRUE ELSE miller_rabin_loop(x, dd, nn)

\* is_prime's loop "while d % 2 == 0: d //= 2"
RECURSIVE halve_while_even(_)
halve_while_even(dd) == IF dd % 2 = 0 THEN halve_while_even(dd \div 2) ELSE dd

NoTrial == [a |-> 0, d |-> 0, passed |-> TRUE]

\* is_prime up to its witness loop: the corner cases, then d
is_prime_entry ==
    /\ ip_pc = "call"
    /\ IF ip_n <= 1 \/ ip_n = 4 THEN ip_ret' = FALSE /\ ip_pc' = "done" /\ ip_d' = ip_d
       ELSE IF ip_n <= 3 THEN ip_ret' = TRUE /\ ip_pc' = "done" /\ ip_d' = ip_d
       ELSE IF ip_n % 2 = 0 THEN ip_ret' = FALSE /\ ip_pc' = "done" /\ ip_d' = ip_d
       ELSE ip_d' = halve_while_even(ip_n - 1) /\ ip_pc' = "rounds" /\ ip_ret' = ip_ret
    /\ UNCHANGED <<ip_n, ip_k, ip_round, ip_trials>>
    /\ UNCHANGED <<fnVars, genVars, kgVars, cVars>>

\* one turn of the witness loop: a trial with a fresh witness; ip_trials keeps
\* the last trial (its witness, the d it was given, its outcome)
is_prime_round ==
    /\ ip_pc = "rounds" /\ ip_round < ip_k
    /\ \E a \in Witnesses(ip_n) :
          LET passed == miller_rabin_test(ip_d, ip_n, a)
          IN /\ ip_trials' = [a |-> a, d |-> ip_d, passed |-> passed]
             /\ IF passed
                THEN ip_round' = ip_round + 1 /\ ip_pc' = ip_pc /\ ip_ret' = ip_ret
                ELSE ip_round' = ip_round /\ ip_pc' = "done" /\ ip_ret' = FALSE
    /\ UNCHANGED <<ip_n, ip_k, ip_d>>
    /\ UNCHANGED <<fnVars, genVars, kgVars, cVars>>

\* the witness loop is over: return True
is_prime_return ==
    /\ ip_pc = "rounds" /\ ip_round = ip_k
    /\ ip_ret' = TRUE /\ ip_pc' = "done"
    /\ UNCHANGED <<ip_n, ip_k, ip_d, ip_round, ip_trials>>
    /\ UNCHANGED <<fnVars, genVars, kgVars, cVars>>

is_prime == is_prime_entry \/ is_prime_round \/ is_prime_return

\* next(generator) for a caller that keeps what the generator has yielded
lcg_prng_next ==
    /\ gbits > 0
    /\ Len(yielded) < MaxDraws
    /\ current_seed' = lcg_next(current_seed, gbits)
    /\ yielded' = Append(yielded, current_seed')
    /\ UNCHANGED <<seed, gbits>>
    /\ UNCHANGED <<fnVars, ipVars, kgVars, cVars>>

---------------------------------------------------------------------------
(* rsa/utils.py: generate_prime_pair; rsa/rsa_core.py: generate_keys *)

DEFAULT_E == 65537
FALLBACK_E == 3
PRIME_TEST_ROUNDS == 20

\* generate_keys(bits) down to generate_prime_pair's generator, seeded with the time
generate_keys_entry ==
    /\ kg_pc = "call"
    /\ \E t \in 0..MaxTime : seed' = t /\ current_seed' = t
    /\ gbits' = bits \div 2
    /\ kg_pc' = "search_p"
    /\ UNCHANGED <<yielded, bits, p, q, n, phi, e, d>>
    /\ UNCHANGED <<fnVars, ipVars, cVars>>

\* p = next(generator), then the call is_prime(p, 20)
draw_p ==
    /\ kg_pc = "search_p"
    /\ current_seed' = lcg_next(current_seed, gbits)
    /\ p' = current_seed'
    /\ ip_pc' = "call" /\ ip_n' = p' /\ ip_k' = PRIME_TEST_ROUNDS
    /\ ip_d' = 0 /\ ip_round' = 0 /\ ip_trials' = NoTrial /\ ip_ret' = FALSE
    /\ kg_pc' = "test_p"
    /\ UNCHANGED <<seed, gbits, yielded, bits, q, n, phi, e, d>>
    /\ UNCHANGED <<fnVars, cVars>>

\* is_prime(p, 20) returned: break, or draw again
p_tested ==
    /\ kg_pc = "test_p" /\ ip_pc = "done"
    /\ kg_pc' = IF ip_ret THEN "search_q" ELSE "search_p"
    /\ ip_pc' = "none" /\ ip_n' = 0 /\ ip_k' = 0
    /\ ip_d' = 0 /\ ip_round' = 0 /\ ip_trials' = NoTrial /\ ip_ret' = FALSE
    /\ UNCHANGED <<bits, p, q, n, phi, e, d>>
    /\ UNCHANGED <<fnVars, genVars, cVars>>

\* q = next(generator); "p != q and is_prime(q, 20)" calls is_prime only if p != q
draw_q ==
    /\ kg_pc = "search_q"
    /\ current_seed' = lcg_next(current_seed, gbits)
    /\ q' = current_seed'
    /\ IF p # q'
       THEN /\ ip_pc' = "call" /\ ip_n' = q' /\ ip_k' = PRIME_TEST_ROUNDS
            /\ ip_d' = 0 /\ ip_round' = 0 /\ ip_trials' = NoTrial /\ ip_ret' = FALSE
            /\ kg_pc' = "test_q"
       ELSE UNCHANGED ipVars /\ kg_pc' = kg_pc
    /\ UNCHANGED <<seed, gbits, yielded, bits, p, n, phi, e, d>>
    /\ UNCHANGED <<fnVars, cVars>>

\* is_prime(q, 20) returned: generate_prime_pair returns (p, q), or draws again
q_tested ==
    /\ kg_pc = "test_q" /\ ip_pc = "done"
    /\ kg_pc' = IF ip_ret THEN "multiply" ELSE "search_q"
    /\ ip_pc' = "none" /\ ip_n' = 0 /\ ip_k' = 0
    /\ ip_d' = 0 /\ ip_round' = 0 /\ ip_trials' = NoTrial /\ ip_ret' = FALSE
    /\ UNCHANGED <<bits, p, q, n, phi, e, d>>
    /\ UNCHANGED <<fnVars, genVars, cVars>>

generate_prime_pair == draw_p \/ p_tested \/ draw_q \/ q_tested

\* n, phi and the default exponent
generate_keys_multiply ==
    /\ kg_pc = "multiply"
    /\ n' = karatsuba_multiply(p, q)
    /\ phi' = karatsuba_multiply(p - 1, q - 1)
    /\ e' = DEFAULT_E
    /\ kg_pc' = "while"
    /\ UNCHANGED <<bits, p, q, d>>
    /\ UNCHANGED <<fnVars, genVars, ipVars, cVars>>

\* one step of "while gcd(e, phi) != 1: e = 3": at "while" the test, which enters
\* the body or leaves the loop; at "fallback" the body, which goes back to the test
generate_keys_while ==
    /\ kg_pc \in {"while", "fallback"}
    /\ IF kg_pc = "while"
       THEN e' = e /\ kg_pc' = (IF gcd(e, phi) # 1 THEN "fallback" ELSE "modinv")
       ELSE e' = FALLBACK_E /\ kg_pc' = "while"
    /\ UNCHANGED <<bits, p, q, n, phi, d>>
    /\ UNCHANGED <<fnVars, genVars, ipVars, cVars>>

\* d = modinv(e, phi), which may raise; then the return of both keys
generate_keys_modinv ==
    /\ kg_pc = "modinv"
    /\ LET r == modinv(e, phi)
       IN IF r.kind = "raise"
          THEN d' = d /\ kg_pc' = "raised"
          ELSE d' = r.value /\ kg_pc' = "returned"
    /\ UNCHANGED <<bits, p, q, n, phi, e>>
    /\ UNCHANGED <<fnVars, genVars, ipVars, cVars>>

generate_keys == generate_keys_multiply \/ generate_keys_while \/ generate_keys_modinv

---------------------------------------------------------------------------
(* rsa/rsa_core.py: encrypt and decrypt.  A message is a sequence of code  *)
(* points, a byte string a sequence of numbers in 0..255.                  *)

\* str.encode('utf-8') of one code point
utf8_char(cp) ==
    IF cp < 128 THEN <<cp>>
    ELSE IF cp < 2048 THEN <<192 + (cp \div 64), 128 + (cp % 64)>>
    ELSE IF cp < 65536
         THEN <<224 + (cp \div 4096), 128 + ((cp \div 64) % 64), 128 + (cp % 64)>>
    ELSE <<240 + (cp \div 262144), 128 + ((cp \div 4096) % 64),
           128 + ((cp \div 64) % 64), 128 + (cp % 64)>>

RECURSIVE utf8_encode(_)
utf8_encode(text) ==
    IF text = <<>> THEN <<>> ELSE utf8_char(Head(text)) \o utf8_encode(Tail(text))

IsContinuation(b) == b >= 128 /\ b <= 191

\* the length of the well-formed UTF-8 sequence that starts at bs[i], or 0
utf8_sequence_at(bs, i) ==
    LET b0 == bs[i]
        has(k) == i + k <= Len(bs) /\ IsContinuation(bs[i + k])
    IN IF b0 < 128 THEN 1
       ELSE IF b0 >= 194 /\ b0 <= 223 /\ has(1) THEN 2
       ELSE IF /\ b0 >= 224 /\ b0 <= 239 /\ has(1) /\ has(2)
               /\ (b0 = 224 => bs[i + 1] >= 160)
               /\ (b0 = 237 => bs[i + 1] <= 159) THEN 3
       ELSE IF /\ b0 >= 240 /\ b0 <= 244 /\ has(1) /\ has(2) /\ has(3)
               /\ (b0 = 240 => bs[i + 1] >= 144)
               /\ (b0 = 244 => bs[i + 1] <= 143) THEN 4
       ELSE 0

utf8_code_point(bs, i, len) ==
    IF len = 1 THEN bs[i]
    ELSE IF len = 2 THEN (bs[i] - 192) * 64 + (bs[i + 1] - 128)
    ELSE IF len = 3
         THEN (bs[i] - 224) * 4096 + (bs[i + 1] - 128) * 64 + (bs[i + 2] - 128)
    ELSE (bs[i] - 240) * 262144 + (bs[i + 1] - 128) * 4096
            + (bs[i + 2] - 128) * 64 + (bs[i + 3] - 128)

\* bytes.decode('utf-8', errors='ignore'): bytes that start no well-formed
\* sequence are dropped
RECURSIVE utf8_decode_ignore(_, _)
utf8_decode_ignore(bs, i) ==
    IF i > Len(bs) THEN <<>>
    ELSE LET len == utf8_sequence_at(bs, i)
         IN IF len = 0 THEN utf8_decode_ignore(bs, i + 1)
            ELSE <<utf8_code_point(bs, i, len)>> \o utf8_decode_ignore(bs, i + len)

key_bytes(nn) == (bit_length(nn) + 7) \div 8

\* a block as long as the modulus
max_block_size_no_margin(nn) == key_bytes(nn)

max_block_size(nn) == key_bytes(nn) - 1

\* message_bytes[i:i + max_block_size], for the 0-based i of the code
block_at(bs, i, size) ==
    SubSeq(bs, i + 1, IF i + size < Len(bs) THEN i + size ELSE Len(bs))

\* encrypt(message, (e, n)) down to its loop: the block size, the error, the bytes
encrypt_entry ==
    /\ kg_pc = "returned" /\ c_pc = "call"
    /\ IF max_block_size(n) <= 0
       THEN c_pc' = "raised" /\ message_bytes' = message_bytes
       ELSE c_pc' = "encrypting" /\ message_bytes' = utf8_encode(message)
    /\ c_i' = 0
    /\ UNCHANGED <<message, encrypted_blocks, decrypted_bytes, plaintext>>
    /\ UNCHANGED <<fnVars, genVars, ipVars, kgVars>>

\* one turn of encrypt's loop over range(0, len(message_bytes), max_block_size)
encrypt_block ==
    /\ c_pc = "encrypting" /\ c_i < Len(message_bytes)
    /\ LET block == block_at(message_bytes, c_i, max_block_size(n))
           m == bytes_to_int(block)
       IN encrypted_blocks' = Append(encrypted_blocks, modexpo(m, e, n))
    /\ c_i' = c_i + max_block_size(n)
    /\ UNCHANGED <<c_pc, message, message_bytes, decrypted_bytes, plaintext>>
    /\ UNCHANGED <<fnVars, genVars, ipVars, kgVars>>

\* encrypt returns its blocks, and decrypt(blocks, (d, n)) is called with them
encrypt_return ==
    /\ c_pc = "encrypting" /\ c_i >= Len(message_bytes)
    /\ c_pc' = "decrypting" /\ c_i' = 0
    /\ UNCHANGED <<message, message_bytes, encrypted_blocks, decrypted_bytes, plaintext>>
    /\ UNCHANGED <<fnVars, genVars, ipVars, kgVars>>

\* one turn of decrypt's loop "for c in cipher_blocks"; c_i blocks are done
decrypt_block ==
    /\ c_pc = "decrypting" /\ c_i < Len(encrypted_blocks)
    /\ LET m == modexpo(encrypted_blocks[c_i + 1], d, n)
       IN decrypted_bytes' = decrypted_bytes \o int_to_bytes(m)
    /\ c_i' = c_i + 1
    /\ UNCHANGED <<c_pc, message, message_bytes, encrypted_blocks, plaintext>>
    /\ UNCHANGED <<fnVars, genVars, ipVars, kgVars>>

\* decrypt returns the decoded bytes
decrypt_return ==
    /\ c_pc = "decrypting" /\ c_i >= Len(encrypted_blocks)
    /\ plaintext' = utf8_decode_ignore(decrypted_bytes, 1)
    /\ c_pc' = "done"
    /\ UNCHANGED <<message, message_bytes, c_i, encrypted_blocks, decrypted_bytes>>
    /\ UNCHANGED <<fnVars, genVars, ipVars, kgVars>>

encrypt == encrypt_entry \/ encrypt_block \/ encrypt_return

decrypt == decrypt_block \/ decrypt_return

---------------------------------------------------------------------------
(* Frames that a specification does not use stay as they are built *)

NoCall == fn = "none" /\ args = <<>> /\ result = <<>>

NoGenerator == seed = 0 /\ gbits = 0 /\ current_seed = 0 /\ yielded = <<>>

NoPrimeTest ==
    /\ ip_pc = "none" /\ ip_n = 0 /\ ip_k = 0 /\ ip_d = 0
    /\ ip_round = 0 /\ ip_trials = NoTrial /\ ip_ret = FALSE

NoKeys ==
    /\ kg_pc = "none" /\ bits = 0 /\ p = 0 /\ q = 0
    /\ n = 0 /\ phi = 0 /\ e = 0 /\ d = 0

NoCipher ==
    /\ c_pc = "none" /\ message = <<>> /\ message_bytes = <<>> /\ c_i = 0
    /\ encrypted_blocks = <<>> /\ decrypted_bytes = <<>> /\ plaintext = <<>>

---------------------------------------------------------------------------
(* Calls of the pure functions: fn is the function to call next, args the  *)
(* caller's arguments, result the values returned so far.                  *)

CodecBytes == {0, 1, 127, 128, 255}

RECURSIVE SeqsUpTo(_, _)
SeqsUpTo(S, len) ==
    IF len = 0 THEN {<<>>}
    ELSE LET shorter == SeqsUpTo(S, len - 1)
         IN shorter \cup {Append(s, x) : s \in {t \in shorter : Len(t) = len - 1}, x \in S}

Call_modexpo ==
    /\ fn = "modexpo"
    /\ result' = <<modexpo(args[1], args[2], args[3])>>
    /\ fn' = "done"
    /\ UNCHANGED <<args, genVars, ipVars, kgVars, cVars>>

Call_karatsuba_multiply ==
    /\ fn = "karatsuba_multiply"
    /\ result' = <<karatsuba_multiply(args[1], args[2])>>
    /\ fn' = "done"
    /\ UNCHANGED <<args, genVars, ipVars, kgVars, cVars>>

Call_modinv ==
    /\ fn = "modinv"
    /\ result' = <<modinv(args[1], args[2])>>
    /\ fn' = "done"
    /\ UNCHANGED <<args, genVars, ipVars, kgVars, cVars>>

\* A round trip through the codec makes two calls; fn names the next one, so after
\* both it names the function the trip began with.
\* bytes_to_int, on the caller's block or on the bytes int_to_bytes returned
Call_bytes_to_int ==
    /\ fn = "bytes_to_int"
    /\ Len(result) < 2
    /\ result' = Append(result, bytes_to_int(IF result = <<>> THEN args[1] ELSE result[1]))
    /\ fn' = "int_to_bytes"
    /\ UNCHANGED <<args, genVars, ipVars, kgVars, cVars>>

\* int_to_bytes, on the caller's integer or on the integer bytes_to_int returned
Call_int_to_bytes ==
    /\ fn = "int_to_bytes"
    /\ Len(result) < 2
    /\ result' = Append(result, int_to_bytes(IF result = <<>> THEN args[1] ELSE result[1]))
    /\ fn' = "bytes_to_int"
    /\ UNCHANGED <<args, genVars, ipVars, kgVars, cVars>>

InitModexpo ==
    /\ fn = "modexpo" /\ result = <<>>
    /\ args \in (0..MaxBase) \X (0..MaxExponent) \X (2..MaxModulus)
    /\ NoGenerator /\ NoPrimeTest /\ NoKeys /\ NoCipher

InitKaratsuba ==
    /\ fn = "karatsuba_multiply" /\ result = <<>>
    /\ args \in ((0..MaxLong) \X (0..MaxShort)) \cup ((0..MaxShort) \X (0..MaxLong))
    /\ NoGenerator /\ NoPrimeTest /\ NoKeys /\ NoCipher

InitModinv ==
    /\ fn = "modinv" /\ result = <<>>
    /\ args \in (0..MaxInvArg) \X (2..MaxInvArg)
    /\ NoGenerator /\ NoPrimeTest /\ NoKeys /\ NoCipher

InitCodec ==
    /\ result = <<>>
    /\ \/ fn = "bytes_to_int" /\ args \in {<<b>> : b \in SeqsUpTo(CodecBytes, MaxCodecLen)}
       \/ fn = "int_to_bytes" /\ args \in {<<i>> : i \in 0..MaxCodecInt}
    /\ NoGenerator /\ NoPrimeTest /\ NoKeys /\ NoCipher

InitIsPrime ==
    /\ ip_pc = "call" /\ ip_n \in (-2)..MaxTested /\ ip_k \in 1..MaxRounds
    /\ ip_d = 0 /\ ip_round = 0 /\ ip_trials = NoTrial /\ ip_ret = FALSE
    /\ NoCall /\ NoGenerator /\ NoKeys /\ NoCipher

\* lcg_prng(seed, bits) for an even bits; current_seed = int(seed)
InitLcg ==
    /\ seed \in (-MaxLcgSeed)..MaxLcgSeed
    /\ gbits \in {b \in 2..MaxLcgBits : b % 2 = 0}
    /\ current_seed = seed /\ yielded = <<>>
    /\ NoCall /\ NoPrimeTest /\ NoKeys /\ NoCipher

\* generate_keys(bits) is called with an even bits (main.py refuses an odd one)
InitKeyGen ==
    /\ kg_pc = "call" /\ bits \in {b \in 2..MaxKeyBits : b % 2 = 0}
    /\ p = 0 /\ q = 0 /\ n = 0 /\ phi = 0 /\ e = 0 /\ d = 0
    /\ ip_pc = "none" /\ ip_n = 0 /\ ip_k = 0 /\ ip_d = 0
    /\ ip_round = 0 /\ ip_trials = NoTrial /\ ip_ret = FALSE
    /\ NoCall /\ NoGenerator /\ NoCipher

\* the primes generate_prime_pair may have returned: 65537 divides 1703963 - 1
KeyPrimes == {7, 13, 17, 23, 257, 263, 1703963}

\* MulMod holds moduli below 2^26
PrimePairs == {pq \in KeyPrimes \X KeyPrimes : pq[1] # pq[2] /\ pq[1] * pq[2] < 2 ^ 26}

\* 'A', e-acute, the euro sign: one, two and three bytes of UTF-8
Alphabet == {65, 233, 8364}

\* generate_prime_pair has returned (p, q); the message of the later encrypt call
InitRsa ==
    /\ kg_pc = "multiply"
    /\ \E pq \in PrimePairs : p = pq[1] /\ q = pq[2]
    /\ bits = 2 * (IF p > q THEN bit_length(p) ELSE bit_length(q))
    /\ n = 0 /\ phi = 0 /\ e = 0 /\ d = 0
    /\ c_pc = "call" /\ message \in SeqsUpTo(Alphabet, MaxMessageLen)
    /\ message_bytes = <<>> /\ c_i = 0
    /\ encrypted_blocks = <<>> /\ decrypted_bytes = <<>> /\ plaintext = <<>>
    /\ NoCall /\ NoGenerator /\ NoPrimeTest

NextRsa == generate_keys \/ encrypt \/ decrypt

SpecRsa == InitRsa /\ [][NextRsa]_vars

NextKeyGen == generate_keys_entry \/ generate_prime_pair \/ is_prime \/ generate_keys

SpecKeyGen == InitKeyGen /\ [][NextKeyGen]_vars
SpecIsPrime == InitIsPrime /\ [][is_prime]_vars
SpecLcg == InitLcg /\ [][lcg_prng_next]_vars
SpecModexpo == InitModexpo /\ [][Call_modexpo]_vars
SpecKaratsuba == InitKaratsuba /\ [][Call_karatsuba_multiply]_vars
SpecModinv == InitModinv /\ [][Call_modinv]_vars
SpecCodec == InitCodec /\ [][Call_bytes_to_int \/ Call_int_to_bytes]_vars

---------------------------------------------------------------------------
(* Reference definitions the claims compare the code with *)

\* base^exponent by repeated multiplication
RECURSIVE RefPow(_, _)
RefPow(b, x) == IF x = 0 THEN 1 ELSE b * RefPow(b, x - 1)

\* gcd by subtraction
RECURSIVE RefGcd(_, _)
RefGcd(a, b) ==
    IF a = 0 THEN b ELSE IF b = 0 THEN a
    ELSE IF a >= b THEN RefGcd(a - b, b) ELSE RefGcd(a, b - a)

\* primality by trial division
IsPrimeRef(v) == v >= 2 /\ \A f \in 2..(v - 1) : v % f # 0

\* base^exponent mod modulus by repeated multiplication, reduced at each step
RECURSIVE RefPowMod(_, _, _)
RefPowMod(b, x, m) == IF x = 0 THEN 1 % m ELSE (b * RefPowMod(b, x - 1, m)) % m

IsPowerOfTwo(v) == \E j \in 0..30 : v = 2 ^ j

\* v = 2^r * OddPartRef(v)
OddPartRef(v) == CHOOSE o \in 1..v : o % 2 = 1 /\ v % o = 0 /\ IsPowerOfTwo(v \div o)

TwoExponentRef(v) == CHOOSE r \in 0..30 : v = (2 ^ r) * OddPartRef(v)

\* a is a strong-probable-prime base for the odd n >= 5
StrongProbablePrimeBase(a, nn) ==
    LET o == OddPartRef(nn - 1)
        r == TwoExponentRef(nn - 1)
    IN \/ RefPowMod(a, o, nn) = 1
       \/ \E j \in 0..(r - 1) : RefPowMod(a, o * (2 ^ j), nn) = nn - 1

---------------------------------------------------------------------------
(* C2: modexpo(base, exponent, modulus), for base, exponent >= 0 and       *)
(* modulus > 1, returns a value in [0, modulus) equal to base^exponent mod *)
(* modulus as repeated multiplication computes it.                         *)
C2_ModexpoMatchesReference ==
    (fn = "done" /\ Len(args) = 3) =>
        /\ result[1] >= 0 /\ result[1] < args[3]
        /\ result[1] = RefPow(args[1], args[2]) % args[3]

\* exponent 0 with a base that is a multiple of the modulus, and a large case
C2_Witness ==
    /\ fn = "done" /\ Len(args) = 3
    /\ args[2] = 0 /\ args[1] > 0 /\ args[1] % args[3] = 0 /\ result[1] = 1

(* C3: karatsuba_multiply(x, y) returns x*y for all non-negative x, y,    *)
(* also when one operand's high half is 0 and when the half-sums carry.    *)
C3_KaratsubaIsProduct ==
    (fn = "done" /\ Len(args) = 2) => result[1] = args[1] * args[2]

\* x of four digits, y of two (its high half is 0), and the half-sums of x carry
C3_Witness ==
    /\ fn = "done" /\ Len(args) = 2
    /\ DecLen(args[1]) = 4 /\ DecLen(args[2]) = 2
    /\ (args[1] \div 100) + (args[1] % 100) >= 100
    /\ result[1] = args[1] * args[2]

(* C4: for a >= 0 and m > 1, modinv(a, m) returns x in [0, m) with         *)
(* (a*x) mod m = 1 when gcd(a, m) = 1, and raises ValueError otherwise.    *)
C4_ModinvContract ==
    (fn = "done" /\ Len(args) = 2 /\ result[1].kind \in {"return", "raise"}) =>
        IF RefGcd(args[1], args[2]) = 1
        THEN /\ result[1].kind = "return"
             /\ result[1].value >= 0 /\ result[1].value < args[2]
             /\ (args[1] * result[1].value) % args[2] = 1
        ELSE result[1].kind = "raise"

\* an inverse whose Bezout coefficient was negative before normalising
C4_Witness ==
    /\ fn = "done" /\ Len(args) = 2
    /\ result[1].kind = "return"
    /\ egcd(args[1], args[2])[2] < 0
    /\ (args[1] * result[1].value) % args[2] = 1

\* the round trip of a byte block is over / the round trip of an integer is over
BytesTripDone == fn = "bytes_to_int" /\ Len(result) = 2
IntTripDone == fn = "int_to_bytes" /\ Len(result) = 2

C5_NoFalseNegatives ==
    ip_pc = "done" =>
        /\ IsPrimeRef(ip_n) => ip_ret
        /\ (ip_n <= 1 \/ ip_n = 4 \/ (ip_n > 2 /\ ip_n % 2 = 0)) => ~ip_ret

\* a prime whose last trial passed only inside the squaring loop
C5_Witness ==
    /\ ip_pc = "done" /\ ip_ret /\ ip_k >= 2 /\ ip_round = ip_k
    /\ IsPrimeRef(ip_n) /\ ip_n > 50
    /\ modexpo(ip_trials.a, ip_d, ip_n) \notin {1, ip_n - 1}

(* C9: for odd n >= 5 a trial with witness a passes exactly when a is a    *)
(* strong-probable-prime base for n; every trial is given the same odd d   *)
(* with n-1 = 2^r * d; and is_prime returns True exactly when all k trials *)
(* passed.                                                                 *)
C9_TrialIsStrongProbablePrimeTest ==
    /\ ip_trials.a # 0 =>
          /\ ip_trials.passed <=> StrongProbablePrimeBase(ip_trials.a, ip_n)
          /\ ip_trials.d = OddPartRef(ip_n - 1)
    /\ (ip_pc = "done" /\ ip_n >= 5 /\ ip_n % 2 = 1) =>
          (ip_ret <=> (ip_round = ip_k /\ ip_trials.passed))

\* a composite passed a second trial inside the squaring loop (a strong liar)
C9_Witness ==
    /\ ip_pc = "rounds" /\ ip_round = 2 /\ ip_trials.passed
    /\ ~IsPrimeRef(ip_n)
    /\ modexpo(ip_trials.a, ip_d, ip_n) \notin {1, ip_n - 1}

(* C10: for every integer seed and every even bits >= 2 the first value    *)
(* lcg_prng yields is (2^(bits/2)*seed + 1) mod 2^bits and every later one *)
(* is 2^(bits/2) + 1: the stream holds at most two distinct values.        *)
C10_StreamIsFixedAfterFirstDraw ==
    (gbits > 0 /\ gbits % 2 = 0) =>
        /\ \A i \in 1..Len(yielded) :
              yielded[i] = IF i = 1 THEN ((2 ^ (gbits \div 2)) * seed + 1) % (2 ^ gbits)
                           ELSE 2 ^ (gbits \div 2) + 1
        /\ Cardinality({yielded[i] : i \in 1..Len(yielded)}) <= 2

\* a negative seed, two distinct values, and the second one repeated
C10_Witness ==
    /\ gbits >= 4 /\ seed < 0 /\ Len(yielded) >= 3
    /\ yielded[1] # yielded[2] /\ yielded[2] = yielded[3]

(* C7: whenever generate_keys(bits) returns for an even bits, p and q each *)
(* have bit length bits/2 and bits-1 <= bitlength(n) <= bits+1.            *)
C7_PrimeAndModulusSizes ==
    kg_pc = "returned" =>
        /\ bit_length(p) = bits \div 2
        /\ bit_length(q) = bits \div 2
        /\ bits - 1 <= bit_length(n) /\ bit_length(n) <= bits + 1

(* C1: under a key pair generate_keys returns with n >= 256, decrypt(      *)
(* encrypt(message, (e, n)), (d, n)) = message for every message of        *)
(* printable text: the empty one, one shorter than a block, one of several *)
(* blocks; encrypt refuses a key only when n < 256.                        *)
C1_RoundTrip ==
    /\ c_pc = "done" => plaintext = message
    /\ c_pc = "raised" => n < 256
    /\ c_pc \in {"encrypting", "decrypting", "done"} =>
          (n >= 256 /\ n = p * q /\ MulMod(e, d, phi) = 1)

\* blocks of at least two bytes, several of them, with the last one shorter
C1_Witness ==
    /\ c_pc = "done" /\ plaintext = message
    /\ max_block_size(n) >= 2
    /\ Len(encrypted_blocks) >= 2
    /\ Len(message_bytes) % max_block_size(n) # 0

====
